---- MODULE Spec2Model ----
(***************************************************************************)
(* AmpStoryEmbeddedComponent                                               *)
(* (extensions/amp-story/1.0/amp-story-embedded-component.js).             *)
(*                                                                         *)
(* The component, the store it subscribes to, the queue of the mutations   *)
(* it hands to the resources service and the part of the DOM it writes.    *)
(* Every handler is one atomic action: JavaScript runs a handler to        *)
(* completion, the store's re-entrant notifications included.  A handler   *)
(* is a function from the world before it to the world after it; the       *)
(* world is the record W of the variables below plus two transient fields, *)
(* log (what the handler did, in order) and thrown (a devAssert failed and *)
(* the handler is unwinding).                                              *)
(*                                                                         *)
(* Lengths are in half pixels (Px), so that x / 2 of a whole number of     *)
(* pixels is exact.                                                        *)
(*                                                                         *)
(* What lies outside the file is modelled as follows.  The store keeps the *)
(* value dispatched and calls the subscribers of a property when its value *)
(* has changed (storeDispatch).  The resources service queues the          *)
(* callbacks of mutateElement and measureMutateElement and runs them       *)
(* later, oldest first (mutateElement, RunTask).  devAssert throws on a    *)
(* falsy value, as in a development build; dev().warn and user().error log *)
(* and return.  A click on the tooltip or on the focused state layer needs *)
(* the layer to be displayed, that is, the class i-amphtml-hidden to be    *)
(* off it in the DOM.                                                      *)
(***************************************************************************)
EXTENDS Integers, Sequences, FiniteSets, TLC

VARIABLES
  state_,                 \* this.state_
  previousTarget_,        \* this.previousTarget_
  focusedStateOverlay_,   \* this.focusedStateOverlay_ (and tooltip_, shadowRoot_) built
  expandedViewOverlay_,   \* this.expandedViewOverlay_ built
  tooltip,                \* attributes, listener and content of this.tooltip_
  store,                  \* the store service's state
  dom,                    \* what the applied mutations have written
  queue,                  \* mutations handed to resources_, not yet applied
  rtlState,               \* rtlState of buildFocusedStateTemplate_, that its listeners keep
  everBound,              \* history: the targets updateTooltipEl_ has run for
  last,                   \* history: the last step, its input and what it did
  geo                     \* input and output of one placement computation

vars == <<state_, previousTarget_, focusedStateOverlay_, expandedViewOverlay_,
          tooltip, store, dom, queue, rtlState, everBound, last, geo>>

----------------------------------------------------------------------------
(* Bounds of the model. *)

\* Mutations that may be pending at once.
MaxPending == 4

\* How far around a threshold the placement inputs range, in pixels.
Spread == 2

----------------------------------------------------------------------------
(* Program constants. *)

HIDDEN == 0
FOCUSED == 1
EXPANDED == 2

MIN_VERTICAL_SPACE == 56

EDGE_PADDING == 8

EXPANDABLE_COMPONENTS == {"amp-twitter"}

DEFAULT_ICON_SRC == "data:image/gif"

NULL == "null"

UNDEFINED == "undefined"

TOGGLE_EMBEDDED_COMPONENT == "toggleEmbeddedComponent"

\* EventType.NEXT_PAGE and EventType.PREVIOUS_PAGE
NEXT_PAGE == "NEXT_PAGE"

PREVIOUS_PAGE == "PREVIOUS_PAGE"

TOGGLE_EXPANDED_COMPONENT == "toggleExpandedComponent"

Px(n) == 2 * n

----------------------------------------------------------------------------
(* The elements the store can name as the embedded component: the ones the *)
(* selectors of embeddedComponentSelectors() match.                        *)

Targets == {"twitter", "link", "close"}

\* Elements whose tooltip content differs: the two above, a link whose href
\* is a javascript: url and an embed whose data-tooltip-icon is one.
ContentTargets == {"twitter", "link", "badlink", "badicon"}

\* The pages of the story.
Pages == {1, 2}

tagName(t) ==
  CASE t \in {"twitter", "badicon"} -> "amp-twitter"
    [] t \in {"link", "badlink"} -> "a"
    [] OTHER -> "span"

\* matches(target, embeddedComponentSelectors().LINK)
matchesLink(t) == t \in {"link", "badlink"}

\* matches(target, '.i-amphtml-expanded-view-close-button')
matchesCloseButton(t) == t = "close"

\* target.getAttribute('href')
hrefAttr(t) ==
  CASE t = "link" -> "https://example.com/"
    [] t = "badlink" -> "javascript:alert(1)"
    [] OTHER -> NULL

\* target.getAttribute('data-tooltip-icon')
iconAttr(t) ==
  CASE t = "twitter" -> "https://example.com/icon.png"
    [] t = "badicon" -> "javascript:alert(1)"
    [] OTHER -> NULL

\* target.getAttribute('data-tooltip-text')
textAttr(t) == IF t \in {"twitter", "badicon"} THEN "Tweet" ELSE NULL

\* isProtocolValid: an absent url is valid, a javascript: url is not.
isProtocolValid(url) == url \notin {"javascript:alert(1)"}

\* parseUrlDeprecated(url).href
parseUrlHref(url) == url

Rect(top, left, width, height) ==
  [top |-> Px(top), left |-> Px(left), width |-> Px(width), height |-> Px(height)]

Bottom(r) == r.top + r.height

\* storyPage.getBoundingClientRect()
pageRectOf(p) == Rect(0, 0, 400, 600)

\* target.getBoundingClientRect()
rectOf(t) ==
  CASE t = "twitter" -> Rect(300, 100, 200, 200)
    [] t \in {"link", "badlink"} -> Rect(10, 180, 40, 40)
    [] t = "badicon" -> Rect(300, 100, 200, 200)
    [] OTHER -> Rect(0, 360, 40, 40)

----------------------------------------------------------------------------
(* The world record and its primitives. *)

NoTask == [k |-> "none", t |-> NULL, p |-> 0]

Task(k, t, p) == [k |-> k, t |-> t, p |-> p]

\* An entry of the log: e is what happened, a and t its arguments, s the
\* value of state_ when it happened.
Ev(e, a, t, s) ==
  [e |-> e, a |-> a, t |-> t, s |-> s, s2 |-> -1, n |-> 0, same |-> FALSE,
   again |-> FALSE]

\* The return of a call of onEmbeddedComponentUpdate_(t) that took the world
\* from w to r: a is previousTarget_ and s is state_ at the entry, s2 is state_
\* at the return, n the number of entries the call logged, same whether the
\* call left the world as it found it.
Returned(t, w, r) ==
  [e |-> "update", a |-> w.previousTarget_, t |-> t, s |-> w.state_,
   s2 |-> r.state_, n |-> Len(r.log) - Len(w.log), same |-> (r = w),
   again |-> FALSE]

\* A run of updateTooltipEl_(t): a is previousTarget_, again whether it has
\* run for t before.
Bound(t, w) ==
  [Ev("bind", w.previousTarget_, t, w.state_) EXCEPT !.again = (t \in w.everBound)]

W == [state_ |-> state_, previousTarget_ |-> previousTarget_,
      focusedStateOverlay_ |-> focusedStateOverlay_,
      expandedViewOverlay_ |-> expandedViewOverlay_,
      tooltip |-> tooltip, store |-> store, dom |-> dom, queue |-> queue,
      rtlState |-> rtlState, everBound |-> everBound, log |-> <<>>,
      thrown |-> FALSE]

Emit(w, e) == IF w.thrown THEN w ELSE [w EXCEPT !.log = Append(@, e)]

\* The one element of a set of one element.
The(S) == CHOOSE x \in S : TRUE

\* devAssert(value): throws when the value is falsy.
devAssert(w, ok) ==
  IF w.thrown \/ ok THEN w
  ELSE [w EXCEPT !.thrown = TRUE,
                 !.log = Append(@, Ev("assertFail", "", NULL, w.state_))]

\* dev().warn(TAG, ...): logs, and returns normally.
warn(w) == Emit(w, Ev("warn", "", NULL, w.state_))

\* user().error(TAG, ...): logs, and returns normally.
userError(w, what) == Emit(w, Ev("userError", what, NULL, w.state_))

\* resources_.mutateElement / measureMutateElement: the callback runs later,
\* in the order it was handed over.
mutateElement(w, task) ==
  IF w.thrown THEN w
  ELSE Emit([w EXCEPT !.queue = Append(@, task)], Ev("mutate", task.k, task.t, w.state_))

----------------------------------------------------------------------------
(* Placement: verticalPositioning_ and horizontalPositioning_.  state is   *)
(* the object positionTooltip_ creates, {arrowOnTop: false}; an assignment *)
(* to a property it lacks adds the property.                               *)

Min(a, b) == IF a < b THEN a ELSE b

Max(a, b) == IF a > b THEN a ELSE b

Abs(a) == IF a < 0 THEN 0 - a ELSE a

SetProp(state, name, value) == (name :> value) @@ state

verticalPositioning_(targetRect, pageRect, state) ==
  LET targetTopOffset == targetRect.top - pageRect.top
      targetBottomOffset == Bottom(targetRect) - pageRect.top
  IN  IF targetTopOffset > Px(MIN_VERTICAL_SPACE)
      THEN SetProp(state, "tooltipTop", targetRect.top - Px(MIN_VERTICAL_SPACE))
      ELSE IF pageRect.height - targetBottomOffset > Px(MIN_VERTICAL_SPACE)
      THEN SetProp(SetProp(state, "tooltipTop",
                           Bottom(targetRect) + Px(EDGE_PADDING) * 2),
                   "arrowOnTop", TRUE)
      ELSE SetProp(state, "tooltipTop", pageRect.height \div 2)

\* horizontalPositioning_ without the Math.max that keeps the tooltip off the
\* left edge of the page.
horizontalPositioning_NoLeftEdge(targetRect, pageRect, state, tooltipWidth, arrowWidth) ==
  LET targetLeftOffset == targetRect.left - pageRect.left
      elCenterLeft == targetRect.width \div 2 + targetLeftOffset
      centered == elCenterLeft - (tooltipWidth \div 2)
      maxHorizontalLeft == pageRect.width - tooltipWidth - Px(EDGE_PADDING)
      tooltipLeft == Min(centered, maxHorizontalLeft)
      arrowLeftOffset ==
        Min(Abs(elCenterLeft - tooltipLeft - arrowWidth \div 2),
            tooltipWidth - Px(EDGE_PADDING) * 3)
  IN  SetProp(SetProp(state, "arrowLeftOffset", arrowLeftOffset),
              "tooltipLeft", tooltipLeft + pageRect.left)

\* tooltipWidth is this.tooltip_.offsetWidth, arrowWidth is
\* this.tooltipArrow_.offsetWidth.
horizontalPositioning_(targetRect, pageRect, state, tooltipWidth, arrowWidth) ==
  LET targetLeftOffset == targetRect.left - pageRect.left
      elCenterLeft == targetRect.width \div 2 + targetLeftOffset
      centered == elCenterLeft - (tooltipWidth \div 2)
      maxHorizontalLeft == pageRect.width - tooltipWidth - Px(EDGE_PADDING)
      tooltipLeft == Max(Px(EDGE_PADDING), Min(centered, maxHorizontalLeft))
      arrowLeftOffset ==
        Min(Abs(elCenterLeft - tooltipLeft - arrowWidth \div 2),
            tooltipWidth - Px(EDGE_PADDING) * 3)
  IN  SetProp(SetProp(state, "arrowLeftOffset", arrowLeftOffset),
              "tooltipLeft", tooltipLeft + pageRect.left)

\* this.tooltip_.offsetWidth and this.tooltipArrow_.offsetWidth, in pixels.
TooltipWidth == Px(200)

ArrowWidth == Px(12)

\* The measure callback of positionTooltip_.
measurePlacement(t, p) ==
  horizontalPositioning_(rectOf(t), pageRectOf(p),
    verticalPositioning_(rectOf(t), pageRectOf(p), [arrowOnTop |-> FALSE]),
    TooltipWidth, ArrowWidth)

\* The measure callback of animateExpanded_: the translation it leaves in
\* state for the mutate callback.
measureExpanded(targetRect, pageRect) ==
  LET centeredTop == pageRect.height \div 2 - targetRect.height \div 2
      centeredLeft == pageRect.width \div 2 - targetRect.width \div 2
      leftOffset == targetRect.left - pageRect.left
      topOffset == targetRect.top - pageRect.top
  IN  [translateY |-> centeredTop - topOffset,
       translateX |-> leftOffset - centeredLeft]

----------------------------------------------------------------------------
(* The handlers.                                                           *)

RECURSIVE onEmbeddedComponentUpdate_(_, _)
RECURSIVE setState_(_, _, _)
RECURSIVE maybeCloseExpandedView_(_, _)
RECURSIVE onFocusedStateUpdate_(_, _)
RECURSIVE storeDispatch(_, _, _)
RECURSIVE dispatch(_, _, _)

\* The store: the reducer, then the listeners of every property whose value
\* changed.  The component's listener of EMBEDDED_COMPONENT is the one
\* subscribed in the constructor.
storeDispatch(w, action, data) ==
  IF w.thrown THEN w
  ELSE IF action = TOGGLE_EMBEDDED_COMPONENT
  THEN LET w1 == [w EXCEPT !.store.embedded = data]
       IN  IF w.store.embedded # data
           THEN onEmbeddedComponentUpdate_(w1, data)
           ELSE w1
  ELSE [w EXCEPT !.store.expanded = data]

\* this.storeService_.dispatch(action, data), as the component calls it.
dispatch(w, action, data) ==
  storeDispatch(Emit(w, Ev("dispatch", action, data, w.state_)), action, data)

\* [w |-> the world after, v |-> the value returned]
getElementHref_(w, target) ==
  LET elUrl == hrefAttr(target)
  IN  IF ~isProtocolValid(elUrl)
      THEN [w |-> userError(w, "url"), v |-> UNDEFINED]
      ELSE [w |-> w, v |-> parseUrlHref(elUrl)]

\* addAttributesToElement(el, {href: value}): el.setAttribute('href', value)
setHref(w, value) ==
  IF w.thrown THEN w ELSE [w EXCEPT !.tooltip.href = value]

addExpandListener(w) ==
  IF w.thrown THEN w ELSE [w EXCEPT !.tooltip.listener = TRUE]

removeExpandListener(w) ==
  IF w.thrown THEN w ELSE [w EXCEPT !.tooltip.listener = FALSE]

updateTooltipBehavior_(w, target) ==
  IF w.thrown THEN w
  ELSE IF matchesLink(target)
  THEN LET w1 == devAssert(w, w.focusedStateOverlay_)
           h == getElementHref_(w1, target)
       IN  setHref(h.w, h.v)
  ELSE IF tagName(target) \in EXPANDABLE_COMPONENTS
  THEN addExpandListener(w)
  ELSE w

\* getSourceOriginForElement(target, href)
getSourceOriginForElement(target, href) ==
  IF href = UNDEFINED THEN "" ELSE "origin"

updateTooltipText_(w, target) ==
  IF w.thrown THEN w
  ELSE IF textAttr(target) # NULL
  THEN [w EXCEPT !.tooltip.text = textAttr(target)]
  ELSE LET h == getElementHref_(w, target)
       IN  [h.w EXCEPT !.tooltip.text = getSourceOriginForElement(target, h.v)]

updateTooltipIcon_(w, target) ==
  LET iconUrl == iconAttr(target)
      iconSrc == IF iconUrl # NULL THEN parseUrlHref(iconUrl) ELSE DEFAULT_ICON_SRC
  IN  IF w.thrown THEN w
      ELSE IF ~isProtocolValid(iconUrl) THEN userError(w, "icon")
      ELSE [w EXCEPT !.tooltip.iconSrc = iconSrc,
                     !.tooltip.iconHidden = (iconSrc = DEFAULT_ICON_SRC)]

positionTooltip_(w, target) ==
  mutateElement(w, Task("position", target, 0))

updateTooltipEl_(w, target) ==
  LET w0 == Emit(w, Bound(target, w))
      w1 == IF w0.thrown THEN w0 ELSE [w0 EXCEPT !.everBound = @ \cup {target}]
  IN  positionTooltip_(updateTooltipIcon_(updateTooltipText_(w1, target), target),
                       target)

onUIStateUpdate_(w) ==
  mutateElement(devAssert(w, w.focusedStateOverlay_), Task("uiState", NULL, 0))

\* buildFocusedState_ and buildFocusedStateTemplate_; the overlay is born
\* with the class i-amphtml-hidden, the tooltip without href or listener.
buildFocusedState_(w) ==
  IF w.thrown THEN w
  ELSE onUIStateUpdate_([w EXCEPT !.focusedStateOverlay_ = TRUE,
                                  !.rtlState = w.store.rtl])

\* onFocusedStateUpdate_ hiding the layer without telling the store.
onFocusedStateUpdate_NoDispatch(w, target) ==
  IF w.thrown THEN w
  ELSE IF target = NULL
  THEN mutateElement(devAssert(w, w.focusedStateOverlay_),
                     Task("hideFocused", NULL, 0))
  ELSE LET w1 == IF ~w.focusedStateOverlay_ THEN buildFocusedState_(w) ELSE w
           w2 == updateTooltipBehavior_(w1, target)
           w3 == IF target # w2.previousTarget_
                 THEN updateTooltipEl_(w2, target) ELSE w2
           w4 == IF w3.thrown THEN w3 ELSE [w3 EXCEPT !.previousTarget_ = target]
           w5 == devAssert(w4, w4.focusedStateOverlay_)
       IN  mutateElement(w5, Task("showFocused", NULL, 0))

\* onFocusedStateUpdate_ without the assignment of previousTarget_.
onFocusedStateUpdate_KeepsPreviousTarget(w, target) ==
  IF w.thrown THEN w
  ELSE IF target = NULL
  THEN LET w1 == dispatch(w, TOGGLE_EMBEDDED_COMPONENT, NULL)
           w2 == devAssert(w1, w1.focusedStateOverlay_)
       IN  mutateElement(w2, Task("hideFocused", NULL, 0))
  ELSE LET w1 == IF ~w.focusedStateOverlay_ THEN buildFocusedState_(w) ELSE w
           w2 == updateTooltipBehavior_(w1, target)
           w3 == IF target # w2.previousTarget_
                 THEN updateTooltipEl_(w2, target) ELSE w2
           w5 == devAssert(w3, w3.focusedStateOverlay_)
       IN  mutateElement(w5, Task("showFocused", NULL, 0))

\* onFocusedStateUpdate_ without the test of previousTarget_.
onFocusedStateUpdate_AlwaysBinds(w, target) ==
  IF w.thrown THEN w
  ELSE IF target = NULL
  THEN LET w1 == dispatch(w, TOGGLE_EMBEDDED_COMPONENT, NULL)
           w2 == devAssert(w1, w1.focusedStateOverlay_)
       IN  mutateElement(w2, Task("hideFocused", NULL, 0))
  ELSE LET w1 == IF ~w.focusedStateOverlay_ THEN buildFocusedState_(w) ELSE w
           w2 == updateTooltipBehavior_(w1, target)
           w3 == updateTooltipEl_(w2, target)
           w4 == IF w3.thrown THEN w3 ELSE [w3 EXCEPT !.previousTarget_ = target]
           w5 == devAssert(w4, w4.focusedStateOverlay_)
       IN  mutateElement(w5, Task("showFocused", NULL, 0))

onFocusedStateUpdate_(w, target) ==
  IF w.thrown THEN w
  ELSE IF target = NULL
  THEN LET w1 == dispatch(w, TOGGLE_EMBEDDED_COMPONENT, NULL)
           w2 == devAssert(w1, w1.focusedStateOverlay_)
       IN  mutateElement(w2, Task("hideFocused", NULL, 0))
  ELSE LET w1 == IF ~w.focusedStateOverlay_ THEN buildFocusedState_(w) ELSE w
           w2 == updateTooltipBehavior_(w1, target)
           w3 == IF target # w2.previousTarget_
                 THEN updateTooltipEl_(w2, target) ELSE w2
           w4 == IF w3.thrown THEN w3 ELSE [w3 EXCEPT !.previousTarget_ = target]
           w5 == devAssert(w4, w4.focusedStateOverlay_)
       IN  mutateElement(w5, Task("showFocused", NULL, 0))

animateExpanded_(w, target) ==
  mutateElement(w, Task("animate", target, 0))

buildAndAppendExpandedViewOverlay_(w, storyPage) ==
  IF w.thrown THEN w
  ELSE mutateElement([w EXCEPT !.expandedViewOverlay_ = TRUE],
                     Task("append", NULL, storyPage))

\* storyPage is the page that is active when the handler runs.  The collapse
\* task remembers the target that is expanded when it is scheduled; its
\* callback reads this.previousTarget_ when it runs (applyTask).
toggleExpandedView_(w, targetToExpand) ==
  LET storyPage == w.store.pageId
  IN  IF w.thrown THEN w
      ELSE IF targetToExpand = NULL
      THEN IF w.expandedViewOverlay_
           THEN mutateElement(w, Task("collapse", w.previousTarget_, storyPage))
           ELSE w
      ELSE LET w1 == animateExpanded_(w, targetToExpand)
               w2 == IF ~w1.expandedViewOverlay_
                     THEN buildAndAppendExpandedViewOverlay_(w1, storyPage)
                     ELSE w1
           IN  mutateElement(w2, Task("showExpanded", NULL, storyPage))

\* setState_ with the FOCUSED case falling out of the switch: only HIDDEN
\* is handled by the first branch.
setState_FocusedUnhandled(w, state, target) ==
  IF w.thrown THEN w
  ELSE CASE state = HIDDEN ->
              onFocusedStateUpdate_([w EXCEPT !.state_ = state], target)
         [] state = EXPANDED ->
              toggleExpandedView_(
                onFocusedStateUpdate_([w EXCEPT !.state_ = state], NULL), target)
         [] OTHER -> warn(w)

setState_(w, state, target) ==
  IF w.thrown THEN w
  ELSE CASE state \in {FOCUSED, HIDDEN} ->
              onFocusedStateUpdate_([w EXCEPT !.state_ = state], target)
         [] state = EXPANDED ->
              toggleExpandedView_(
                onFocusedStateUpdate_([w EXCEPT !.state_ = state], NULL), target)
         [] OTHER -> warn(w)

\* maybeCloseExpandedView_ closing on any target, not only the close button.
maybeCloseExpandedView_AnyTarget(w, target) ==
  IF w.thrown THEN w
  ELSE IF target # NULL
  THEN LET w1 == setState_(w, HIDDEN, NULL)
           w2 == toggleExpandedView_(w1, NULL)
           w3 == removeExpandListener(w2)
       IN  dispatch(w3, TOGGLE_EXPANDED_COMPONENT, NULL)
  ELSE w

maybeCloseExpandedView_(w, target) ==
  IF w.thrown THEN w
  ELSE IF target # NULL /\ matchesCloseButton(target)
  THEN LET w1 == setState_(w, HIDDEN, NULL)
           w2 == toggleExpandedView_(w1, NULL)
           w3 == removeExpandListener(w2)
       IN  dispatch(w3, TOGGLE_EXPANDED_COMPONENT, NULL)
  ELSE w

\* The "update" event is the return of the call: s is the state at its
\* entry, s2 the state at its return.
onEmbeddedComponentUpdate_(w, target) ==
  IF w.thrown THEN w
  ELSE The({ Emit(r, Returned(target, w, r)) :
             r \in { CASE w.state_ \in {FOCUSED, HIDDEN} ->
                           IF target # NULL
                           THEN setState_(w, FOCUSED, target)
                           ELSE setState_(w, HIDDEN, NULL)
                      [] w.state_ = EXPANDED -> maybeCloseExpandedView_(w, target)
                      [] OTHER -> warn(w) } })

clearTooltip_(w) ==
  setHref(removeExpandListener(w), NULL)

\* closeFocusedState_ without the call of clearTooltip_.
closeFocusedState_KeepsTooltip(w) ==
  setState_(w, HIDDEN, NULL)

closeFocusedState_(w) ==
  setState_(clearTooltip_(w), HIDDEN, NULL)

\* The return of a listener that took the world from w to r: t is
\* previousTarget_ and s is state_ at the entry, s2 at the return, n the number of entries logged in between,
\* same whether the listener left the world as it found it.
Handled(e, a, w, r) ==
  [e |-> e, a |-> a, t |-> w.previousTarget_, s |-> w.state_, s2 |-> r.state_,
   n |-> Len(r.log) - Len(w.log), same |-> (r = w), again |-> FALSE]

\* The click listener of the focused state layer; inside says whether the
\* tooltip is the element clicked or an ancestor of it.
onOutsideTooltipClick_(w, inside) ==
  The({ Emit(r, Handled("layerClick", IF inside THEN "inside" ELSE "outside", w, r)) :
        r \in {IF ~inside THEN closeFocusedState_(w) ELSE w} })

onExpandComponent_(w) ==
  LET w0 == Emit(w, Ev("expand", "", w.previousTarget_, w.state_))
      w1 == setState_(w0, EXPANDED, w0.previousTarget_)
  IN  dispatch(w1, TOGGLE_EXPANDED_COMPONENT, w1.previousTarget_)

\* onNavigationalClick_: the event dispatched on the shadow root is the
\* "intent" entry; the listener itself touches nothing of the component.
onNavigationalClick_(w, direction) ==
  LET r == devAssert(w, w.focusedStateOverlay_)
  IN  Emit(Emit(r, Ev("intent", direction, NULL, w.state_)),
           Handled("navigate", direction, w, r))

\* The click listener of buttonLeft with the direction fixed.
onButtonLeftClick_IgnoresRtl(w) ==
  onNavigationalClick_(w, PREVIOUS_PAGE)

\* The click listeners of buttonLeft and buttonRight; rtlState is the value
\* buildFocusedStateTemplate_ read from the store.
onButtonLeftClick(w) ==
  onNavigationalClick_(w, IF w.rtlState = TRUE THEN NEXT_PAGE ELSE PREVIOUS_PAGE)

onButtonRightClick(w) ==
  onNavigationalClick_(w, IF w.rtlState = TRUE THEN PREVIOUS_PAGE ELSE NEXT_PAGE)

\* The listener of CURRENT_PAGE_ID leaving the tooltip as it is.
onCurrentPageIdUpdate_Ignored(w) ==
  IF ~w.focusedStateOverlay_ THEN w
  ELSE Emit(w, Handled("pageChange", "", w, w))

\* The listener of CURRENT_PAGE_ID that buildFocusedState_ subscribes; there
\* is none before.
onCurrentPageIdUpdate_(w) ==
  IF ~w.focusedStateOverlay_ THEN w
  ELSE The({ Emit(r, Handled("pageChange", "", w, r)) :
             r \in {IF w.store.embedded # NULL THEN closeFocusedState_(w) ELSE w} })

\* A mutation callback, run by the resources service.
applyTask(w, task) ==
  CASE task.k = "hideFocused" -> [w EXCEPT !.dom.overlayHidden = TRUE]
    [] task.k = "showFocused" -> [w EXCEPT !.dom.overlayHidden = FALSE]
    [] task.k = "uiState" -> [w EXCEPT !.dom.desktop = FALSE]
    [] task.k = "position" ->
         [w EXCEPT !.dom.placedFor = task.t,
                   !.dom.placement = measurePlacement(task.t, w.store.pageId)]
    [] task.k = "animate" -> [w EXCEPT !.dom.transform = @ \cup {task.t}]
    [] task.k = "append" -> [w EXCEPT !.dom.overlayOn = task.p]
    [] task.k = "showExpanded" ->
         [w EXCEPT !.dom.expandedShown = TRUE,
                   !.dom.expandedMode = @ \cup {task.p}]
    [] task.k = "collapse" ->
         LET w1 == [w EXCEPT !.dom.expandedMode = @ \ {task.p},
                             !.dom.expandedShown = FALSE]
             w2 == devAssert(w1, w1.previousTarget_ # NULL)
         IN  IF w2.thrown THEN w2
             ELSE [w2 EXCEPT !.dom.transform = @ \ {w2.previousTarget_}]
    [] OTHER -> w

----------------------------------------------------------------------------
(* The state machine.                                                      *)

NoPlacement ==
  [arrowOnTop |-> FALSE, tooltipTop |-> 0, tooltipLeft |-> 0, arrowLeftOffset |-> 0]

NoTranslation == [translateY |-> 0, translateX |-> 0]

NoGeo == [phase |-> "off", target |-> Rect(0, 0, 0, 0), page |-> Rect(0, 0, 0, 0),
          tooltipWidth |-> TooltipWidth, arrowWidth |-> ArrowWidth,
          out |-> NoPlacement, translation |-> NoTranslation]

\* The constructor, but for state_.
InitFields ==
  /\ previousTarget_ = NULL
  /\ focusedStateOverlay_ = FALSE
  /\ expandedViewOverlay_ = FALSE
  /\ tooltip = [href |-> NULL, listener |-> FALSE, text |-> NULL,
                iconSrc |-> NULL, iconHidden |-> FALSE]
  /\ store \in [embedded : {NULL}, expanded : {NULL}, pageId : {1}, rtl : {FALSE}]
  /\ dom = [overlayHidden |-> TRUE, expandedShown |-> FALSE, expandedMode |-> {},
            transform |-> {}, overlayOn |-> 0, desktop |-> FALSE,
            placedFor |-> NULL, placement |-> NoPlacement]
  /\ queue = <<>>
  /\ rtlState = NULL
  /\ everBound = {}
  /\ last = [op |-> "init", arg |-> NULL, task |-> NoTask,
             log |-> <<>>, thrown |-> FALSE]

InitProgram == state_ = HIDDEN /\ InitFields

Init == InitProgram /\ geo = NoGeo

\* No devAssert of the component fails in a run of the story.
NoAssertionFails == ~last.thrown

\* The step that takes the world to w, by operation op on input arg.
Commit(op, arg, task, w) ==
  /\ Len(w.queue) <= MaxPending
  /\ state_' = w.state_
  /\ previousTarget_' = w.previousTarget_
  /\ focusedStateOverlay_' = w.focusedStateOverlay_
  /\ expandedViewOverlay_' = w.expandedViewOverlay_
  /\ tooltip' = w.tooltip
  /\ store' = w.store
  /\ dom' = w.dom
  /\ queue' = w.queue
  /\ rtlState' = w.rtlState
  /\ everBound' = w.everBound
  /\ last' = [op |-> op, arg |-> arg, task |-> task,
              log |-> w.log, thrown |-> w.thrown]
  /\ UNCHANGED geo

\* Some other part of the story dispatches TOGGLE_EMBEDDED_COMPONENT: the
\* store notifies the component when the value changes.  The close button
\* exists once the expanded view overlay is built.
Notify ==
  \E t \in Targets \cup {NULL} :
    /\ t # store.embedded
    /\ matchesCloseButton(t) => expandedViewOverlay_
    /\ Commit("notify", t, NoTask, storeDispatch(W, TOGGLE_EMBEDDED_COMPONENT, t))

\* A click on the tooltip, which is there to click when the focused state
\* layer is displayed.  The expand listener captures it and stops it; without
\* the listener it bubbles to the layer, whose handler finds it inside the
\* tooltip and leaves it alone.
TooltipClick ==
  /\ focusedStateOverlay_
  /\ ~dom.overlayHidden
  /\ Commit("tooltipClick", NULL, NoTask,
            IF tooltip.listener THEN onExpandComponent_(W)
            ELSE onOutsideTooltipClick_(W, TRUE))

\* A click on the focused state layer outside the tooltip.
OutsideClick ==
  /\ focusedStateOverlay_
  /\ ~dom.overlayHidden
  /\ Commit("outsideClick", NULL, NoTask, onOutsideTooltipClick_(W, FALSE))

\* The story moves to another page.
PageChange ==
  \E p \in Pages \ {store.pageId} :
    Commit("pageChange", NULL, NoTask,
           onCurrentPageIdUpdate_([W EXCEPT !.store.pageId = p]))

\* The resources service runs the oldest pending mutation.
RunTask ==
  /\ queue # <<>>
  /\ Commit("task", NULL, Head(queue),
            applyTask([W EXCEPT !.queue = Tail(@)], Head(queue)))

Next == Notify \/ TooltipClick \/ OutsideClick \/ PageChange \/ RunTask

Spec == Init /\ [][Next]_vars

----------------------------------------------------------------------------
(* The placement computation alone, on rectangles around its thresholds.   *)

Near(c) == (c - Spread)..(c + Spread)

\* Space above and below the target, the target's height and the page's
\* top, in pixels.
Spaces == Near(MIN_VERTICAL_SPACE) \cup {0, 10, 300}

TargetHeights == {40, 500}

PageTops == {0, 20}

GeoInputs ==
  { [phase |-> "in",
     target |-> Rect(pt + above, 180, 40, h),
     page |-> Rect(pt, 0, 400, above + h + below),
     tooltipWidth |-> TooltipWidth, arrowWidth |-> ArrowWidth,
     out |-> NoPlacement, translation |-> NoTranslation] :
    pt \in PageTops, above \in Spaces, below \in Spaces, h \in TargetHeights }

InitGeometry == InitProgram /\ geo \in GeoInputs

\* The measure callback of positionTooltip_ on the rectangles of geo.
Measure ==
  /\ geo.phase = "in"
  /\ geo' = [geo EXCEPT
               !.phase = "out",
               !.out = horizontalPositioning_(geo.target, geo.page,
                         verticalPositioning_(geo.target, geo.page,
                                              [arrowOnTop |-> FALSE]),
                         geo.tooltipWidth, geo.arrowWidth)]
  /\ UNCHANGED <<state_, previousTarget_, focusedStateOverlay_,
                 expandedViewOverlay_, tooltip, store, dom, queue, rtlState,
                 everBound,
                 last>>

NextGeometry == Measure

SpecGeometry == InitGeometry /\ [][NextGeometry]_vars

----------------------------------------------------------------------------
(* Navigation from the focused state layer.  The buttons are descendants   *)
(* of the layer: a click on one runs the button's listener and then, the   *)
(* listener not stopping it, bubbles to the layer's click listener, for    *)
(* which it is a click outside the tooltip.  The story sets the            *)
(* right-to-left flag of the store.                                        *)

NavClick ==
  \E button \in {"left", "right"} :
    /\ focusedStateOverlay_
    /\ ~dom.overlayHidden
    /\ Commit("navClick", button, NoTask,
              onOutsideTooltipClick_(
                IF button = "left" THEN onButtonLeftClick(W)
                ELSE onButtonRightClick(W), FALSE))

ToggleRtl ==
  Commit("toggleRtl", NULL, NoTask, [W EXCEPT !.store.rtl = ~@])

NextNav == Notify \/ NavClick \/ ToggleRtl \/ RunTask

SpecNav == Init /\ [][NextNav]_vars

----------------------------------------------------------------------------
(* The tooltip's content: the store names elements whose href or icon url  *)
(* is not valid, among others, and the user dismisses the tooltip.         *)

NotifyContent ==
  \E t \in ContentTargets \cup {NULL} :
    /\ t # store.embedded
    /\ Commit("notify", t, NoTask, storeDispatch(W, TOGGLE_EMBEDDED_COMPONENT, t))

NextContent == NotifyContent \/ OutsideClick \/ RunTask

SpecContent == Init /\ [][NextContent]_vars

----------------------------------------------------------------------------
(* Placement and expansion on rectangles that differ in their horizontal   *)
(* position and size: targets at the edges of the page, in its middle and  *)
(* around the points where the tooltip meets an edge, pages a tooltip      *)
(* fits in with room to spare, just, and not at all.                       *)

\* Widths of the tooltip, in pixels.
TooltipWidths == {200, 120}

\* The least width of a page that holds a tooltip of the width of
\* TooltipWidth between its two edge paddings.
TightPageWidth == 200 + 2 * EDGE_PADDING

PageWidths == Near(TightPageWidth) \cup {150, 400}

PageLefts == {0, 20}

TargetWidths == {4, 20, 40}

\* Left offsets of the target within the page.
TargetLefts == {0, 2, 180, 350} \cup Near(88) \cup Near(272)

TargetTops == {100, 300}

LayoutHeights == {40, 100}

LayoutInputs ==
  { [phase |-> "in",
     target |-> Rect(top, pl + left, w, h),
     page |-> Rect(0, pl, pw, 600),
     tooltipWidth |-> Px(tw), arrowWidth |-> ArrowWidth,
     out |-> NoPlacement, translation |-> NoTranslation] :
    pl \in PageLefts, pw \in PageWidths, tw \in TooltipWidths,
    w \in TargetWidths, h \in LayoutHeights, top \in TargetTops,
    left \in TargetLefts }

\* The target lies within the page.
InitLayout ==
  /\ InitProgram
  /\ geo \in {g \in LayoutInputs :
               g.target.left - g.page.left + g.target.width <= g.page.width}

\* The measure callback of animateExpanded_ on the rectangles of geo.
MeasureExpanded ==
  /\ geo.phase = "in"
  /\ geo' = [geo EXCEPT !.phase = "expanded",
                        !.translation = measureExpanded(geo.target, geo.page)]
  /\ UNCHANGED <<state_, previousTarget_, focusedStateOverlay_,
                 expandedViewOverlay_, tooltip, store, dom, queue, rtlState,
                 everBound,
                 last>>

NextLayout == Measure \/ MeasureExpanded

SpecLayout == InitLayout /\ [][NextLayout]_vars

----------------------------------------------------------------------------
(* The component driven past its contract: state_ holding a value that is  *)
(* no ComponentState, and setState_ called with one, between store         *)
(* notifications.                                                          *)

UnrecognizedStates == {3}

InitUnit ==
  /\ state_ \in {HIDDEN} \cup UnrecognizedStates
  /\ InitFields
  /\ geo = NoGeo

CallSetState ==
  \E st \in UnrecognizedStates, t \in Targets \cup {NULL} :
    Commit("setState", t, NoTask, setState_(W, st, t))

NextUnit == Notify \/ RunTask \/ CallSetState

SpecUnit == InitUnit /\ [][NextUnit]_vars

----------------------------------------------------------------------------
(* The claims.                                                             *)

Log == last.log

Entries(e) == {i \in DOMAIN Log : Log[i].e = e}

\* The entries logged by the call of onEmbeddedComponentUpdate_ that
\* returned at entry i.
Inside(i) == (i - Log[i].n)..(i - 1)

\* C1: a store notification received while the state is HIDDEN or FOCUSED
\* leaves the state FOCUSED when its target is non-null and HIDDEN when it is
\* null, whichever of the two states it started in and whatever target was
\* focused before; the notification handler returns normally.
C1_NotificationSetsState ==
  /\ \A i \in Entries("update") :
       Log[i].s \in {HIDDEN, FOCUSED} =>
         Log[i].s2 = IF Log[i].t # NULL THEN FOCUSED ELSE HIDDEN
  /\ last.op = "notify" =>
       /\ ~last.thrown
       /\ Log # <<>>
       /\ Log[Len(Log)].e = "update"
       /\ Log[Len(Log)].t = last.arg
       /\ state_ = Log[Len(Log)].s2

\* A notification for a target received while FOCUSED on another target.
C1_Witness ==
  /\ last.op = "notify"
  /\ Log # <<>>
  /\ Log[Len(Log)].e = "update"
  /\ Log[Len(Log)].s = FOCUSED
  /\ Log[Len(Log)].t = "link"
  /\ Log[Len(Log)].a = "twitter"
  /\ state_ = FOCUSED
  /\ previousTarget_ = "link"

\* C2: while the state is EXPANDED, a notification whose target is null or
\* any element but the close button changes nothing: the call of
\* onEmbeddedComponentUpdate_ returns the world it was given (state,
\* previous target, tooltip, store, pending mutations, DOM) and logs no
\* dispatch and no mutation.
C2_StrayUpdateWhileExpandedIsNoOp ==
  \A i \in Entries("update") :
    (Log[i].s = EXPANDED /\ Log[i].t # "close") =>
      /\ Log[i].same
      /\ Log[i].n = 0
      /\ Log[i].s2 = EXPANDED

\* A notification for the link received while the twitter embed is expanded
\* and its expanded view is displayed.
C2_Witness ==
  /\ last.op = "notify"
  /\ last.arg = "link"
  /\ Len(Log) = 1
  /\ Log[1].e = "update"
  /\ Log[1].s = EXPANDED
  /\ state_ = EXPANDED
  /\ previousTarget_ = "twitter"
  /\ dom.expandedShown

\* C3: while the state is EXPANDED, a notification whose target is the close
\* button moves the state to HIDDEN and, in the same handler run, hands over
\* the mutations that collapse the expanded view and hide the tooltip layer,
\* detaches the expand listener and dispatches 'expanded component changed'
\* with null; the collapse, when it is applied, leaves the expanded view
\* hidden, the expanded-mode class off the page and the transform of the
\* target that was expanded reset.
C3_CloseCollapsesExpandedView ==
  /\ \A i \in Entries("update") :
       (Log[i].s = EXPANDED /\ Log[i].t = "close") =>
         /\ Log[i].s2 = HIDDEN
         /\ \E j \in Inside(i) : Log[j].e = "mutate" /\ Log[j].a = "collapse"
         /\ \E j \in Inside(i) : Log[j].e = "mutate" /\ Log[j].a = "hideFocused"
         /\ \E j \in Inside(i) : /\ Log[j].e = "dispatch"
                                 /\ Log[j].a = TOGGLE_EXPANDED_COMPONENT
                                 /\ Log[j].t = NULL
         /\ ~tooltip.listener
  /\ (last.op = "task" /\ last.task.k = "collapse") =>
       /\ ~dom.expandedShown
       /\ last.task.p \notin dom.expandedMode
       /\ last.task.t \notin dom.transform

C5_ExpandedTargetIsExpandable ==
  state_ = EXPANDED =>
    previousTarget_ # NULL /\ tagName(previousTarget_) \in EXPANDABLE_COMPONENTS

\* C6: onExpandComponent_ runs only when the state is FOCUSED, never when it
\* is HIDDEN or EXPANDED, and it has set the state to EXPANDED by the time it
\* dispatches 'expanded component changed' with the target it expands.
C6_ExpandOnlyFromFocused ==
  \A i \in Entries("expand") :
    /\ Log[i].s = FOCUSED
    /\ \E j \in Entries("dispatch") :
         /\ j > i
         /\ Log[j].a = TOGGLE_EXPANDED_COMPONENT
         /\ Log[j].t = Log[i].t
         /\ Log[j].s = EXPANDED

\* C7: when onEmbeddedComponentUpdate_ runs with state_ outside HIDDEN,
\* FOCUSED, EXPANDED, or setState_ is asked for such a state, the handler
\* aborts with an error.
C7_UnrecognizedStateFailsLoudly ==
  (\/ last.op = "setState"
   \/ \E i \in Entries("update") : Log[i].s \notin {HIDDEN, FOCUSED, EXPANDED})
  => last.thrown

\* C8, as claimed: over any sequence of notifications updateTooltipEl_ runs
\* at most once for each target.
C8_BoundOncePerTarget ==
  \A i \in Entries("bind") : ~Log[i].again

\* C8, amended: a notification for a target, received while HIDDEN or
\* FOCUSED, runs updateTooltipEl_ exactly when the target differs from the
\* previous target, and then once, for that target; a notification for the
\* target the previous-target reference already holds does not run it.
C8_BindsOnTargetChange ==
  \A i \in Entries("update") :
    (Log[i].s \in {HIDDEN, FOCUSED} /\ Log[i].t # NULL) =>
      LET binds == {j \in Inside(i) : Log[j].e = "bind"}
      IN  /\ Log[i].t = Log[i].a => binds = {}
          /\ Log[i].t # Log[i].a =>
               /\ Cardinality(binds) = 1
               /\ \A j \in binds : Log[j].t = Log[i].t

\* A notification for the target whose content the tooltip already has: the
\* binder does not run.
C8_Witness ==
  /\ last.op = "notify"
  /\ last.arg = "twitter"
  /\ Entries("bind") = {}
  /\ \E i \in Entries("update") : Log[i].a = "twitter" /\ Log[i].t = "twitter"
  /\ state_ = FOCUSED
  /\ tooltip.text = textAttr("twitter")

\* C9: when the target's top offset inside the container is exactly
\* MIN_VERTICAL_SPACE, the tooltip is placed above: tooltipTop = targetTop -
\* MIN_VERTICAL_SPACE and arrowOnTop is false.
C9_BoundaryPlacesAbove ==
  (geo.phase = "out" /\ geo.target.top - geo.page.top = Px(MIN_VERTICAL_SPACE)) =>
    /\ geo.out.tooltipTop = geo.target.top - Px(MIN_VERTICAL_SPACE)
    /\ geo.out.arrowOnTop = FALSE

\* The rules of vertical placement as the specification words them: there is
\* room above, or below, when the space is at least MIN_VERTICAL_SPACE.
AboveRule == geo.target.top - geo.page.top >= Px(MIN_VERTICAL_SPACE)

BelowRule ==
  geo.page.height - (Bottom(geo.target) - geo.page.top) >= Px(MIN_VERTICAL_SPACE)

\* C10: the rules are tried in order and the first match wins: arrowOnTop is
\* true exactly when the below rule is the first to match, and then
\* tooltipTop = targetBottom + 2 * EDGE_PADDING; when neither rule matches,
\* tooltipTop = containerHeight / 2 and arrowOnTop is false.
C10_FirstMatchWins ==
  geo.phase = "out" =>
    /\ geo.out.arrowOnTop <=> (~AboveRule /\ BelowRule)
    /\ geo.out.arrowOnTop =>
         geo.out.tooltipTop = Bottom(geo.target) + 2 * Px(EDGE_PADDING)
    /\ (~AboveRule /\ ~BelowRule) =>
         /\ geo.out.tooltipTop = geo.page.height \div 2
         /\ geo.out.arrowOnTop = FALSE

\* C16: when the state is FOCUSED, the expand listener is attached to the
\* tooltip if and only if the tag of the focused target is one of the
\* expandable components.
C16_ListenerIffExpandable ==
  state_ = FOCUSED =>
    (tooltip.listener <=> tagName(previousTarget_) \in EXPANDABLE_COMPONENTS)

\* C17: a click on the focused state layer outside the tooltip, while the
\* state is FOCUSED, leaves the state HIDDEN, the tooltip without href and
\* without expand listener and the store's embedded component null, having
\* dispatched TOGGLE_EMBEDDED_COMPONENT with null; a click inside the tooltip
\* that reaches the layer's listener changes nothing.
C17_OutsideClickCloses ==
  \A i \in Entries("layerClick") :
    /\ (Log[i].a = "outside" /\ Log[i].s = FOCUSED) =>
         /\ Log[i].s2 = HIDDEN
         /\ state_ = HIDDEN
         /\ tooltip.href = NULL
         /\ ~tooltip.listener
         /\ store.embedded = NULL
         /\ \E j \in (i - Log[i].n)..(i - 1) :
              /\ Log[j].e = "dispatch"
              /\ Log[j].a = TOGGLE_EMBEDDED_COMPONENT
              /\ Log[j].t = NULL
         /\ ~last.thrown
    /\ Log[i].a = "inside" => Log[i].same /\ Log[i].n = 0

\* An outside click on the tooltip of the twitter embed, which had the
\* expand listener.
C17_Witness ==
  /\ last.op = "outsideClick"
  /\ Log[Len(Log)].e = "layerClick"
  /\ Log[Len(Log)].s = FOCUSED
  /\ previousTarget_ = "twitter"
  /\ state_ = HIDDEN
  /\ ~tooltip.listener

\* C18: when the page changes while the state is FOCUSED, the listener
\* leaves the state HIDDEN and the mutation that hides the focused state
\* layer as the last one pending; with the state HIDDEN and no mutation
\* pending, the layer is hidden.
C18_PageChangeHides ==
  /\ \A i \in Entries("pageChange") :
       Log[i].s = FOCUSED =>
         /\ Log[i].s2 = HIDDEN
         /\ state_ = HIDDEN
         /\ queue # <<>>
         /\ queue[Len(queue)].k = "hideFocused"
         /\ ~last.thrown
  /\ (state_ = HIDDEN /\ queue = <<>>) => dom.overlayHidden

\* A page change while FOCUSED on the link, its tooltip displayed.
C18_Witness ==
  /\ last.op = "pageChange"
  /\ Log # <<>>
  /\ Log[Len(Log)].e = "pageChange"
  /\ Log[Len(Log)].s = FOCUSED
  /\ previousTarget_ = "link"
  /\ ~dom.overlayHidden
  /\ state_ = HIDDEN

\* The intent a button emits under a value of the right-to-left flag.
Intent(button, rtl) ==
  IF (button = "left") = (rtl = TRUE) THEN NEXT_PAGE ELSE PREVIOUS_PAGE

\* C19, as claimed: a click on the left button emits PREVIOUS_PAGE when the
\* store's right-to-left flag is off and NEXT_PAGE when it is on, a click on
\* the right button the opposite, and the click changes nothing of the
\* component.
C19_NavClickOnlyEmits ==
  last.op = "navClick" =>
    /\ \E i \in Entries("intent") : Log[i].a = Intent(last.arg, store.rtl)
    /\ \A i \in Entries("navigate") \cup Entries("layerClick") :
         /\ Log[i].same
         /\ Log[i].s2 = Log[i].s

\* C19, amended: a click on a button emits one intent, the one for the value
\* the right-to-left flag had when the focused state layer was built, and
\* onNavigationalClick_ changes nothing of the component; the click then
\* reaches the layer's listener as a click outside the tooltip, which, the
\* state being FOCUSED, leaves it HIDDEN, the tooltip without href and
\* expand listener and the store's embedded component null.  The previous
\* target is what it was.
C19_NavClickEmitsAndCloses ==
  last.op = "navClick" =>
    /\ ~last.thrown
    /\ Cardinality(Entries("intent")) = 1
    /\ \A i \in Entries("intent") : Log[i].a = Intent(last.arg, rtlState)
    /\ Cardinality(Entries("navigate")) = 1
    /\ \A i \in Entries("navigate") :
         Log[i].same /\ Log[i].t = previousTarget_
    /\ Cardinality(Entries("layerClick")) = 1
    /\ \A i \in Entries("layerClick") :
         /\ Log[i].a = "outside"
         /\ Log[i].t = previousTarget_
         /\ Log[i].s = FOCUSED =>
              /\ state_ = HIDDEN
              /\ tooltip.href = NULL
              /\ ~tooltip.listener
              /\ store.embedded = NULL

\* A click on the left button of a layer built under a right-to-left flag,
\* while FOCUSED on the twitter embed, the flag since turned off.
C19_Witness ==
  /\ last.op = "navClick"
  /\ last.arg = "left"
  /\ rtlState = TRUE
  /\ ~store.rtl
  /\ \E i \in Entries("intent") : Log[i].a = NEXT_PAGE
  /\ \E i \in Entries("layerClick") : Log[i].s = FOCUSED /\ Log[i].t = "twitter"
  /\ state_ = HIDDEN

\* C20: a placement scheduled for a target is never written to the tooltip
\* once a notification for another target has arrived: the placement a
\* mutation writes is the one of the current target; and when no placement
\* is pending, the one written last is the current target's.
C20_StalePlacementDiscarded ==
  /\ (last.op = "task" /\ last.task.k = "position") =>
       last.task.t = previousTarget_
  /\ (dom.placedFor # NULL /\ \A i \in DOMAIN queue : queue[i].k # "position") =>
       dom.placedFor = previousTarget_

\* C21: once every scheduled mutation has been applied, the expanded view
\* overlay is shown, and a page carries the expanded-mode class, if and only
\* if the state is EXPANDED.
C21_ExpandedViewShownIffExpanded ==
  queue = <<>> =>
    /\ dom.expandedShown <=> state_ = EXPANDED
    /\ dom.expandedMode # {} <=> state_ = EXPANDED

\* C22: when a handler has run to completion, the notifications its own
\* dispatches caused included: if the state is HIDDEN the store's embedded
\* component is null, and if it is FOCUSED the store's embedded component is
\* the previous target, which is not null; the handler has returned
\* normally, and the chain it started is short: at most three dispatches, at
\* most two runs of onEmbeddedComponentUpdate_.
C22_StoreAgreesWithState ==
  /\ ~last.thrown
  /\ state_ = HIDDEN => store.embedded = NULL
  /\ state_ = FOCUSED =>
       /\ store.embedded # NULL
       /\ store.embedded = previousTarget_
  /\ Cardinality(Entries("dispatch")) <= 3
  /\ Cardinality(Entries("update")) <= 2

\* An outside click while FOCUSED: the handler's dispatch of null makes the
\* store notify the component, whose own dispatch of null changes nothing.
C22_Witness ==
  /\ last.op = "outsideClick"
  /\ \E i \in Entries("update") :
       Log[i].t = NULL /\ Log[i].s = HIDDEN /\ Log[i].n = 2
  /\ Cardinality(Entries("dispatch")) = 2
  /\ state_ = HIDDEN
  /\ store.embedded = NULL
  /\ previousTarget_ # NULL

----------------------------------------------------------------------------
(* Horizontal placement and the expansion transform, under SpecLayout.     *)

\* The target's horizontal midpoint, relative to the page.
Midpoint == geo.target.width \div 2 + (geo.target.left - geo.page.left)

\* The tooltip's left when it is centred on the target's midpoint.
CenteredLeft == Midpoint - geo.tooltipWidth \div 2

\* containerWidth - tooltipWidth - EDGE_PADDING
MaxLeft == geo.page.width - geo.tooltipWidth - Px(EDGE_PADDING)

\* The tooltip's left relative to the page, before it is translated back by
\* the page's left.
RelativeLeft == geo.out.tooltipLeft - geo.page.left

\* C11, as claimed: the page-relative tooltip left is the upper bound when
\* the centred value exceeds it, EDGE_PADDING when the centred value is below
\* EDGE_PADDING, and always within [EDGE_PADDING, containerWidth -
\* tooltipWidth - EDGE_PADDING].
C11_LeftWithinPage ==
  geo.phase = "out" =>
    /\ CenteredLeft > MaxLeft => RelativeLeft = MaxLeft
    /\ CenteredLeft < Px(EDGE_PADDING) => RelativeLeft = Px(EDGE_PADDING)
    /\ Px(EDGE_PADDING) <= RelativeLeft
    /\ RelativeLeft <= MaxLeft

\* C11, amended: when the page holds the tooltip between its two paddings
\* (containerWidth >= tooltipWidth + 2 * EDGE_PADDING) the page-relative left
\* is the centred value clamped into [EDGE_PADDING, containerWidth -
\* tooltipWidth - EDGE_PADDING]; when it does not, the lower bound wins and
\* the left is EDGE_PADDING.
C11_LeftClampedWhenPageHoldsTooltip ==
  geo.phase = "out" =>
    /\ MaxLeft >= Px(EDGE_PADDING) =>
         /\ CenteredLeft > MaxLeft => RelativeLeft = MaxLeft
         /\ CenteredLeft < Px(EDGE_PADDING) => RelativeLeft = Px(EDGE_PADDING)
         /\ (Px(EDGE_PADDING) <= CenteredLeft /\ CenteredLeft <= MaxLeft) =>
              RelativeLeft = CenteredLeft
         /\ Px(EDGE_PADDING) <= RelativeLeft
         /\ RelativeLeft <= MaxLeft
    /\ MaxLeft < Px(EDGE_PADDING) => RelativeLeft = Px(EDGE_PADDING)

\* A target near the left edge of a page: the centred value is below
\* EDGE_PADDING and the tooltip is placed at EDGE_PADDING from a page whose
\* own left is not 0.
C11_Witness ==
  /\ geo.phase = "out"
  /\ geo.page.left > 0
  /\ MaxLeft > Px(EDGE_PADDING)
  /\ CenteredLeft < Px(EDGE_PADDING)
  /\ RelativeLeft = Px(EDGE_PADDING)

\* C12: the arrow's left offset is |target midpoint - clamped tooltip left|
\* - arrowWidth / 2, clamped into [0, tooltipWidth - 3 * EDGE_PADDING]; it is
\* never negative and never greater than tooltipWidth - 3 * EDGE_PADDING.
C12_ArrowWithinTooltip ==
  geo.phase = "out" =>
    LET upper == geo.tooltipWidth - 3 * Px(EDGE_PADDING)
        raw == Abs(Midpoint - RelativeLeft) - geo.arrowWidth \div 2
    IN  /\ geo.out.arrowLeftOffset = Max(0, Min(raw, upper))
        /\ 0 <= geo.out.arrowLeftOffset
        /\ geo.out.arrowLeftOffset <= upper

\* C13: translating the target by (translateX, translateY) centres it in
\* the page on both axes.
C13_TranslationCentres ==
  geo.phase = "expanded" =>
    /\ (geo.target.top - geo.page.top) + geo.translation.translateY
         = geo.page.height \div 2 - geo.target.height \div 2
    /\ (geo.target.left - geo.page.left) + geo.translation.translateX
         = geo.page.width \div 2 - geo.target.width \div 2

----------------------------------------------------------------------------
(* The tooltip's content, under SpecContent.                               *)

\* C14: when a link whose href fails protocol validation is notified, the
\* state becomes FOCUSED, the handler returns normally, and afterwards the
\* tooltip has no href attribute.
C14_InvalidHrefLeavesNoHref ==
  (last.op = "notify" /\ last.arg = "badlink") =>
    /\ state_ = FOCUSED
    /\ ~last.thrown
    /\ tooltip.href = NULL

\* C15: after a target whose icon url fails protocol validation is bound,
\* the tooltip shows no icon, its own or one left by an earlier target, and
\* the state is FOCUSED; after a target that declares no icon is bound, the
\* icon source is the placeholder and the icon region is hidden.
C15_InvalidIconShowsNoIcon ==
  \A i \in Entries("bind") :
    /\ Log[i].t = "badicon" =>
         /\ tooltip.iconSrc = NULL \/ tooltip.iconHidden
         /\ state_ = FOCUSED
    /\ (Log[i].t \in ContentTargets /\ iconAttr(Log[i].t) = NULL) =>
         /\ tooltip.iconSrc = DEFAULT_ICON_SRC
         /\ tooltip.iconHidden

====
